---------------------------- MODULE Spec2Model ----------------------------
(***************************************************************************)
(* A model of the deep-copy / structural-equality functions and of the     *)
(* throttle wrappers of ymzhao-utils (src/src/index.js and src/unnamed).    *)
(*                                                                         *)
(* JavaScript values are modelled over an explicit heap: a primitive is a  *)
(* record [t, v] holding its typeof-like tag and a payload, an object is a *)
(* reference [t |-> "ref", v |-> i] to heap[i].  Object identity (===) is  *)
(* therefore equality of references, and a freshly allocated object is a   *)
(* new heap index.                                                         *)
(***************************************************************************)
EXTENDS Integers, Sequences, FiniteSets, TLC

VARIABLES heap, ret, now, interval, prev, runs, prevT, timers, runsT

vars == <<heap, ret, now, interval, prev, runs, prevT, timers, runsT>>

(***************************** bounds **************************************)
\* longest array or set drawn as an input (a map holds one entry less)
MaxLen == 2
\* last instant of the throttle timeline (ms)
MaxTime == 6
\* largest throttle interval / delay drawn as an input (ms)
MaxInterval == 2
\* most timers pending at once in the timer-based throttle
MaxTimers == 2

(***************************** values **************************************)
Undef == [t |-> "undefined", v |-> 0]
Null == [t |-> "null", v |-> 0]
Num(n) == [t |-> "number", v |-> n]
Str(n) == [t |-> "string", v |-> n]
Bool(b) == [t |-> "boolean", v |-> b]
Ref(i) == [t |-> "ref", v |-> i]

IsRef(x) == x.t = "ref"

\* the primitives of the Value union
Primitives == {Undef, Null, Num(1), Num(2), Str(1), Bool(1)}

(***************************** objects *************************************)
(* cls   : the built-in class given by the object's internal slots         *)
(* proto : the prototype it was created with (Object.create can make an    *)
(*         ordinary object whose prototype is Map.prototype, ...)          *)
(* keys, attr, vals : own string-keyed properties of a record, in order;   *)
(*         attr is "w" (writable data), "ro" (read-only data), "get"       *)
(*         (getter without setter, vals holds what the getter returns) or  *)
(*         "hidden" (writable, not enumerable)                             *)
(* vals  : for an array or a set, its elements in order                    *)
(* mkeys, vals : for a map, its keys and values in insertion order         *)
(* num   : a date's timestamp, a regexp's source/flags                     *)
(***************************************************************************)
Obj(cls, proto, keys, attr, vals, mkeys, num) ==
  [cls |-> cls, proto |-> proto, keys |-> keys, attr |-> attr,
   vals |-> vals, mkeys |-> mkeys, num |-> num]

MkArray(vals) == Obj("array", "array", <<>>, <<>>, vals, <<>>, 0)
MkRecord(keys, attr, vals) == Obj("object", "object", keys, attr, vals, <<>>, 0)
MkMap(mkeys, vals) == Obj("map", "map", <<>>, <<>>, vals, mkeys, 0)
MkSet(vals) == Obj("set", "set", <<>>, <<>>, vals, <<>>, 0)
MkDate(n) == Obj("date", "date", <<>>, <<>>, <<>>, <<>>, n)
MkRegExp(n) == Obj("regexp", "regexp", <<>>, <<>>, <<>>, <<>>, n)
MkFunction == Obj("function", "function", <<>>, <<>>, <<>>, <<>>, 0)
\* an object of a built-in class the switch statements do not list and that
\* carries a Symbol.toStringTag on its prototype (Promise, WeakMap, ...)
MkOpaque == Obj("opaque", "opaque", <<>>, <<>>, <<>>, <<>>, 0)

\* the index keys "0", "1", ... of an array
IdxKey(i) == <<"0", "1", "2", "3", "4">>[i]

\* Reflect.ownKeys / Object.getOwnPropertyDescriptors: own keys, their
\* descriptors' kind and their current values, in property order
OwnKeys(o) ==
  CASE o.cls = "array" -> [i \in 1..Len(o.vals) |-> IdxKey(i)] \o <<"length">>
    [] o.cls = "function" -> <<"length">>
    [] OTHER -> o.keys

OwnAttr(o) ==
  CASE o.cls = "array" -> [i \in 1..Len(o.vals) |-> "w"] \o <<"hidden">>
    [] o.cls = "function" -> <<"ro">>
    [] OTHER -> o.attr

OwnVals(o) ==
  CASE o.cls = "array" -> o.vals \o <<Num(Len(o.vals))>>
    [] o.cls = "function" -> <<Num(0)>>
    [] o.cls = "object" -> o.vals
    [] OTHER -> <<>>

\* the indices of the enumerable own properties (Object.keys)
EnumIdx(o) == {i \in 1..Len(OwnKeys(o)) : OwnAttr(o)[i] # "hidden"}

RECURSIVE SelectIdx(_, _, _)
SelectIdx(s, keep, i) ==
  IF i > Len(s) THEN <<>>
  ELSE (IF i \in keep THEN <<s[i]>> ELSE <<>>) \o SelectIdx(s, keep, i + 1)

\* Object.keys(o) and the values o[k] for those keys
ObjectKeys(o) == SelectIdx(OwnKeys(o), EnumIdx(o), 1)
ObjectVals(o) == SelectIdx(OwnVals(o), EnumIdx(o), 1)

\* o[k]: the own property's value, undefined when there is none
Get(o, k) ==
  IF \E i \in 1..Len(OwnKeys(o)) : OwnKeys(o)[i] = k
  THEN OwnVals(o)[CHOOSE i \in 1..Len(OwnKeys(o)) : OwnKeys(o)[i] = k]
  ELSE Undef

(***************************** mTypeof *************************************)
\* Object.prototype.toString.call(value) lower-cased: the built-in class,
\* except that an ordinary object takes the Symbol.toStringTag its
\* prototype provides (Map.prototype, Set.prototype and the opaque class
\* have one, Array.prototype and Function.prototype have none)
\* a faulty variant: the lower-casing is left out for plain objects, so
\* that no case of a switch matches them
mTypeofNoLower(h, value) ==
  IF ~IsRef(value) THEN value.t
  ELSE IF h[value.v].cls = "object" THEN "Object" ELSE h[value.v].cls

mTypeof(h, value) ==
  IF ~IsRef(value) THEN value.t
  ELSE LET o == h[value.v]
       IN IF o.cls = "object"
          THEN (IF o.proto \in {"map", "set", "opaque"} THEN o.proto ELSE "object")
          ELSE o.cls

\* the call-stack limit of the engine: deeper than any recursion that ends
\* on the heaps drawn here, so only unbounded recursion reaches it
StackLimit == 2 * MaxLen + 6

Thrown(h, what) == [heap |-> h, val |-> Undef, thrown |-> what]
Returned(h, value) == [heap |-> h, val |-> value, thrown |-> "none"]

(***************************** deepCopy ************************************)
RECURSIVE deepCopy(_, _, _)
RECURSIVE CopyEach(_, _, _, _, _)

\* the callbacks of map / reduce / forEach / for-of: deepCopy of each value
\* of src in order; an exception ends the iteration
CopyEach(h, src, i, acc, d) ==
  IF i > Len(src) THEN [heap |-> h, vals |-> acc, thrown |-> "none"]
  ELSE LET r == deepCopy(h, src[i], d)
       IN IF r.thrown # "none"
          THEN [heap |-> r.heap, vals |-> acc, thrown |-> r.thrown]
          ELSE CopyEach(r.heap, src, i + 1, Append(acc, r.val), d)

\* the container a case builds: [], {}, new Map(), new Set() ...
Shell(ty) ==
  CASE ty = "array" -> MkArray(<<>>)
    [] ty = "object" -> MkRecord(<<>>, <<>>, <<>>)
    [] ty = "map" -> MkMap(<<>>, <<>>)
    [] ty = "set" -> MkSet(<<>>)

\* ... and what it holds once the copies vs of o's children are added:
\* prev[curr] = copy, tmpMap.set(k, copy), tmpSet.add(copy)
Filled(ty, o, vs) ==
  CASE ty = "array" -> MkArray(vs)
    [] ty = "object" -> MkRecord(ObjectKeys(o), [i \in 1..Len(vs) |-> "w"], vs)
    [] ty = "map" -> MkMap(o.mkeys, vs)
    [] ty = "set" -> MkSet(vs)

\* the new container is allocated first, then filled with the copies of
\* the children src of o
CopyInto(h, ty, o, src, d) ==
  LET id == Len(h) + 1
      r == CopyEach(Append(h, Shell(ty)), src, 1, <<>>, d + 1)
  IN IF r.thrown # "none" THEN Thrown(r.heap, r.thrown)
     ELSE Returned([r.heap EXCEPT ![id] = Filled(ty, o, r.vals)], Ref(id))

deepCopy(h, val, d) ==
  IF d > StackLimit THEN Thrown(h, "RangeError")
  ELSE LET ty == mTypeof(h, val)
           o == h[val.v]
       IN CASE ty = "array" -> CopyInto(h, ty, o, o.vals, d)
            [] ty = "object" -> CopyInto(h, ty, o, ObjectVals(o), d)
            [] ty = "map" ->
                 \* val.forEach needs the receiver's internal slot
                 IF o.cls # "map" THEN Thrown(h, "TypeError")
                 ELSE CopyInto(h, ty, o, o.vals, d)
            [] ty = "set" ->
                 IF o.cls # "set" THEN Thrown(h, "TypeError")
                 ELSE CopyInto(h, ty, o, o.vals, d)
            [] ty = "regexp" -> Returned(Append(h, MkRegExp(o.num)), Ref(Len(h) + 1))
            [] ty = "date" -> Returned(Append(h, MkDate(o.num)), Ref(Len(h) + 1))
            [] OTHER -> Returned(h, val)

(***************************** deepCopy1 ***********************************)
\* hash is the WeakMap: a set of <<original, clone>> pairs of heap indices
HashHas(hash, obj) == IsRef(obj) /\ \E p \in hash : p[1] = obj.v
HashGet(hash, obj) == Ref((CHOOSE p \in hash : p[1] = obj.v)[2])

\* obj instanceof Date / RegExp: the prototype chain holds that prototype
InstanceOf(h, obj, class) == IsRef(obj) /\ h[obj.v].proto = class

\* obj[key] && typeof obj[key] === "object"
IsObjectTyped(h, x) == IsRef(x) /\ h[x.v].cls # "function"

\* cloneObj[key] = value in strict mode (the file is an ES module): a
\* read-only data property or an accessor without setter throws TypeError
CanAssign(attr) == attr \notin {"ro", "get"}

RECURSIVE deepCopy1(_, _, _, _)
RECURSIVE CopyOwnKeys(_, _, _, _, _, _)

\* for (let key of Reflect.ownKeys(obj)) { ... }
CopyOwnKeys(h, hash, obj, id, i, d) ==
  LET o == h[obj.v]
  IN IF i > Len(OwnKeys(o)) THEN [heap |-> h, hash |-> hash, thrown |-> "none"]
     ELSE LET x == OwnVals(o)[i]
              r == IF IsObjectTyped(h, x)
                   THEN deepCopy1(h, hash, x, d + 1)
                   ELSE [heap |-> h, hash |-> hash, val |-> x, thrown |-> "none"]
          IN IF r.thrown # "none"
             THEN [heap |-> r.heap, hash |-> r.hash, thrown |-> r.thrown]
             ELSE IF ~CanAssign(OwnAttr(o)[i])
             THEN [heap |-> r.heap, hash |-> r.hash, thrown |-> "TypeError"]
             ELSE CopyOwnKeys([r.heap EXCEPT ![id].vals[i] = r.val],
                              r.hash, obj, id, i + 1, d)

deepCopy1(h, hash, obj, d) ==
  IF d > StackLimit
  THEN [heap |-> h, hash |-> hash, val |-> Undef, thrown |-> "RangeError"]
  ELSE IF InstanceOf(h, obj, "date")
  THEN [heap |-> Append(h, MkDate(h[obj.v].num)), hash |-> hash,
        val |-> Ref(Len(h) + 1), thrown |-> "none"]
  ELSE IF InstanceOf(h, obj, "regexp")
  THEN [heap |-> Append(h, MkRegExp(h[obj.v].num)), hash |-> hash,
        val |-> Ref(Len(h) + 1), thrown |-> "none"]
  ELSE IF HashHas(hash, obj)
  THEN [heap |-> h, hash |-> hash, val |-> HashGet(hash, obj), thrown |-> "none"]
  ELSE IF ~IsRef(obj)
  \* null, undefined: getOwnPropertyDescriptors throws; any other primitive:
  \* hash.set throws "Invalid value used as weak map key"
  THEN [heap |-> h, hash |-> hash, val |-> Undef, thrown |-> "TypeError"]
  ELSE LET o == h[obj.v]
           id == Len(h) + 1
           \* Object.create(Object.getPrototypeOf(obj), allDesc): an
           \* ordinary object with obj's prototype and own properties
           cloneObj == Obj("object", o.proto, OwnKeys(o), OwnAttr(o), OwnVals(o),
                           <<>>, 0)
           r == CopyOwnKeys(Append(h, cloneObj), hash \cup {<<obj.v, id>>},
                            obj, id, 1, d)
       IN IF r.thrown # "none"
          THEN [heap |-> r.heap, hash |-> r.hash, val |-> Undef, thrown |-> r.thrown]
          ELSE [heap |-> r.heap, hash |-> r.hash, val |-> Ref(id), thrown |-> "none"]

(***************************** isObjectEqual *******************************)
\* a faulty variant: the exclusion list is ignored
IsExcludedNever(excludes, k) == FALSE

\* excludes && excludes.includes(k)
IsExcluded(excludes, k) == k \in excludes

\* a faulty variant: only the keys of the entries are compared
EntryDiffersKeyOnly(e1, e2) == e1[1] # e2[1]

\* tmpVal1[0] !== tmpVal2[0] || tmpVal1[1] !== tmpVal2[1]
EntryDiffers(e1, e2) == e1[1] # e2[1] \/ e1[2] # e2[2]

\* obj.entries(): [key, value] for a map, [value, value] for a set
Entries(o) ==
  IF o.cls = "map" THEN [i \in 1..Len(o.vals) |-> <<o.mkeys[i], o.vals[i]>>]
  ELSE [i \in 1..Len(o.vals) |-> <<o.vals[i], o.vals[i]>>]

\* the while loop over both iterators: ck
RECURSIVE EntriesLoop(_, _, _)
EntriesLoop(e1, e2, i) ==
  IF i > Len(e1) \/ i > Len(e2) THEN "true"
  ELSE IF EntryDiffers(e1[i], e2[i]) THEN "false"
  ELSE EntriesLoop(e1, e2, i + 1)

\* the result is "true" or "false", or the exception the call ends with
RECURSIVE isObjectEqual(_, _, _, _, _)
RECURSIVE EveryIndex(_, _, _, _, _, _)
RECURSIVE EveryKey(_, _, _, _, _, _, _)

\* obj1.every((v, idx) => isObjectEqual(v, obj2[idx], excludes))
EveryIndex(h, o1, o2, i, excludes, d) ==
  IF i > Len(o1.vals) THEN "true"
  ELSE LET r == isObjectEqual(h, o1.vals[i], o2.vals[i], excludes, d)
       IN IF r # "true" THEN r ELSE EveryIndex(h, o1, o2, i + 1, excludes, d)

\* keys1.every(k => excluded(k) || isObjectEqual(obj1[k], obj2[k], excludes))
EveryKey(h, o1, o2, keys1, i, excludes, d) ==
  IF i > Len(keys1) THEN "true"
  ELSE LET k == keys1[i]
           r == IF IsExcluded(excludes, k) THEN "true"
                ELSE isObjectEqual(h, Get(o1, k), Get(o2, k), excludes, d)
       IN IF r # "true" THEN r ELSE EveryKey(h, o1, o2, keys1, i + 1, excludes, d)

isObjectEqual(h, obj1, obj2, excludes, d) ==
  IF d > StackLimit THEN "RangeError"
  ELSE LET type1 == mTypeof(h, obj1)
           type2 == mTypeof(h, obj2)
           o1 == h[obj1.v]
           o2 == h[obj2.v]
       IN IF type1 # type2 THEN "false"
          ELSE CASE type1 = "array" ->
                      IF Len(o1.vals) # Len(o2.vals) THEN "false"
                      ELSE EveryIndex(h, o1, o2, 1, excludes, d + 1)
                 [] type1 = "object" ->
                      IF Len(ObjectKeys(o1)) # Len(ObjectKeys(o2)) THEN "false"
                      ELSE EveryKey(h, o1, o2, ObjectKeys(o1), 1, excludes, d + 1)
                 [] type1 \in {"string", "number", "boolean"} ->
                      IF obj1 = obj2 THEN "true" ELSE "false"
                 [] type1 = "date" -> IF o1.num = o2.num THEN "true" ELSE "false"
                 [] type1 = "function" -> IF obj1 = obj2 THEN "true" ELSE "false"
                 [] type1 \in {"map", "set"} ->
                      \* the size getter needs the receiver's internal slot
                      IF o1.cls # type1 \/ o2.cls # type1 THEN "TypeError"
                      ELSE IF Len(o1.vals) # Len(o2.vals) THEN "false"
                      ELSE EntriesLoop(Entries(o1), Entries(o2), 1)
                 [] type1 = "regexp" -> IF o1.num = o2.num THEN "true" ELSE "false"
                 [] OTHER -> "true"

(***************************** inputs **************************************)
SeqsUpTo(S, n) == UNION {[1..k -> S] : k \in 0..n}

Distinct(s) == \A i, j \in 1..Len(s) : i # j => s[i] # s[j]

\* the containers whose children are drawn from V, maps holding one entry
\* less than the other collections
Arrays(V) == {MkArray(s) : s \in SeqsUpTo(V, MaxLen)}
Sets(V) == {MkSet(s) : s \in {q \in SeqsUpTo(V, MaxLen) : Distinct(q)}}
Maps(V) ==
  UNION {{MkMap(ks, vs) : ks \in {q \in [1..k -> V] : Distinct(q)}, vs \in [1..k -> V]}
         : k \in 0..(MaxLen - 1)}
Records(KeySeqs, Attrs, V) ==
  UNION {{MkRecord(ks, as, vs) : as \in [1..Len(ks) -> Attrs], vs \in [1..Len(ks) -> V]}
         : ks \in KeySeqs}

NoRet == [fn |-> "none", arg |-> Undef, arg2 |-> Undef, ex |-> {},
          val |-> Undef, out |-> "none", thrown |-> "none"]

\* ---- clone: heap = <<root, child>>, the root is any container over the
\* primitives and both objects, the child is a leaf or points back
CloneSlots == {Undef, Num(1), Ref(1), Ref(2)}

CloneRoots ==
  Arrays(CloneSlots) \cup Sets(CloneSlots) \cup Maps(CloneSlots)
  \cup Records({<<>>, <<"a">>, <<"b">>, <<"a", "b">>}, {"w", "ro", "get"}, CloneSlots)
  \cup {MkDate(1), MkRegExp(1), MkFunction, MkOpaque}

CloneChildren ==
  {MkRecord(<<"a">>, <<"w">>, <<Num(1)>>), MkRecord(<<"a">>, <<"w">>, <<Ref(1)>>),
   MkArray(<<>>), MkArray(<<Ref(1)>>), MkSet(<<Num(1)>>),
   MkMap(<<Num(1)>>, <<Num(1)>>), MkDate(1), MkRegExp(1), MkFunction, MkOpaque}

CloneArgs == {Ref(1), Ref(2)} \cup Primitives

\* ---- equality: heap = <<obj1, obj2, c1, c2>>, c1 and c2 leaf records
\* (ids 3 and 4); collections hold numbers and the leaves, records also
\* undefined
EqualElems == {Num(1), Num(2), Ref(3), Ref(4)}
EqualSlots == EqualElems \cup {Undef}

EqualRoots ==
  Arrays(EqualElems) \cup Sets(EqualElems) \cup Maps(EqualElems)
  \cup Records({<<>>, <<"key">>, <<"a">>, <<"key", "a">>}, {"w"}, EqualSlots)
  \cup {MkDate(1), MkDate(2), MkRegExp(1), MkFunction, MkOpaque}

EqualLeaf1 == {MkRecord(<<"key">>, <<"w">>, <<Num(1)>>),
               MkRecord(<<"a">>, <<"w">>, <<Num(1)>>)}
EqualLeaf2 == {MkRecord(<<"key">>, <<"w">>, <<Num(1)>>),
               MkRecord(<<"key">>, <<"w">>, <<Num(2)>>),
               MkRecord(<<"a">>, <<"w">>, <<Num(1)>>),
               MkRecord(<<"a">>, <<"w">>, <<Num(2)>>)}

Excludes == SUBSET {"key", "a"}

(***************************** clone / equality steps **********************)
IdleThrottle ==
  /\ now = 0 /\ interval = 0 /\ prev = 0 /\ runs = <<>>
  /\ prevT = 0 /\ timers = <<>> /\ runsT = <<>>

throttleVars == <<now, interval, prev, runs, prevT, timers, runsT>>

Init ==
  /\ \E r \in CloneRoots, c \in CloneChildren : heap = <<r, c>>
  /\ ret = NoRet
  /\ IdleThrottle

\* a caller's deepCopy(val)
DeepCopyCall ==
  /\ ret.fn = "none"
  /\ \E val \in CloneArgs :
       LET r == deepCopy(heap, val, 0)
       IN /\ heap' = r.heap
          /\ ret' = [NoRet EXCEPT !.fn = "deepCopy", !.arg = val,
                                  !.val = r.val, !.thrown = r.thrown]
  /\ UNCHANGED throttleVars

\* a caller's deepCopy1(obj), hash defaulting to a new WeakMap
DeepCopy1Call ==
  /\ ret.fn = "none"
  /\ \E obj \in CloneArgs :
       LET r == deepCopy1(heap, {}, obj, 0)
       IN /\ heap' = r.heap
          /\ ret' = [NoRet EXCEPT !.fn = "deepCopy1", !.arg = obj,
                                  !.val = r.val, !.thrown = r.thrown]
  /\ UNCHANGED throttleVars

Next == DeepCopyCall \/ DeepCopy1Call

Spec == Init /\ [][Next]_vars

InitEqual ==
  /\ \E a \in EqualRoots, b \in EqualRoots, c1 \in EqualLeaf1, c2 \in EqualLeaf2 :
       heap = <<a, b, c1, c2>>
  /\ ret = NoRet
  /\ IdleThrottle

\* a call isObjectEqual(obj1, obj2, excludes) on the two roots; leaving
\* excludes out is the call with ['key']
IsObjectEqualCall ==
  /\ ret.fn = "none"
  /\ \E excludes \in Excludes :
       ret' = [NoRet EXCEPT !.fn = "isObjectEqual", !.arg = Ref(1), !.arg2 = Ref(2),
                            !.ex = excludes,
                            !.out = isObjectEqual(heap, Ref(1), Ref(2), excludes, 0)]
  /\ UNCHANGED <<heap, throttleVars>>

NextEqual == IsObjectEqualCall

SpecEqual == InitEqual /\ [][NextEqual]_vars

(***************************** throttle ************************************)
\* throttle(fn, interval) of index.js (part_000 holds the same code) and
\* throttle(fn, delay) of the timer-based variant (part_001) are both
\* created at instant 0 (prev = +new Date())
InitThrottle ==
  /\ heap = <<>>
  /\ ret = NoRet
  /\ now = 0
  /\ interval \in 1..MaxInterval
  /\ prev = 0
  /\ runs = <<>>
  /\ prevT = 0
  /\ timers = <<>>
  /\ runsT = <<>>

\* a pending timer is due
Due(t) == t.fire <= now

\* the clock advances one ms; a due timer callback runs first
Tick ==
  /\ now < MaxTime
  /\ \A i \in 1..Len(timers) : ~Due(timers[i])
  /\ now' = now + 1
  /\ UNCHANGED <<heap, ret, interval, prev, runs, prevT, timers, runsT>>

\* if (curr - prev > interval)
Exceeds(curr, p, iv) == curr - p > iv

\* a call of the wrapper returned by throttle (index.js): fn runs at once
ThrottleCall ==
  /\ IF Exceeds(now, prev, interval)
     THEN prev' = now /\ runs' = Append(runs, now)
     ELSE UNCHANGED <<prev, runs>>
  /\ UNCHANGED <<heap, ret, now, interval, prevT, timers, runsT>>

\* a call of the wrapper returned by the timer-based throttle: unless
\* curr - prev < delay, fn is scheduled delay ms later
ThrottleTimerCall ==
  /\ Len(timers) < MaxTimers
  /\ IF now - prevT < interval
     THEN UNCHANGED timers
     ELSE timers' = Append(timers, [fire |-> now + interval, curr |-> now])
  /\ UNCHANGED <<heap, ret, now, interval, prev, runs, prevT, runsT>>

\* the setTimeout callback: fn(...args); prev = curr
TimerFire ==
  /\ timers # <<>>
  /\ Due(Head(timers))
  /\ runsT' = Append(runsT, now)
  /\ prevT' = Head(timers).curr
  /\ timers' = Tail(timers)
  /\ UNCHANGED <<heap, ret, now, interval, prev, runs>>

NextThrottle == Tick \/ ThrottleCall \/ ThrottleTimerCall \/ TimerFire

SpecThrottle == InitThrottle /\ [][NextThrottle]_vars

(***************************** reachability ********************************)
Range(f) == {f[i] : i \in DOMAIN f}

\* the objects an object refers to: elements, property values, map keys
\* and map values
RefsOf(o) == {x.v : x \in {y \in Range(o.vals) \cup Range(o.mkeys) : IsRef(y)}}

RECURSIVE ReachFrom(_, _)
ReachFrom(h, S) ==
  LET N == S \cup UNION {RefsOf(h[i]) : i \in S}
  IN IF N = S THEN S ELSE ReachFrom(h, N)

\* the objects reachable from a value
Reach(h, x) == IF IsRef(x) THEN ReachFrom(h, {x.v}) ELSE {}

CopyDone == ret.fn \in {"deepCopy", "deepCopy1"}
CopyReturned == CopyDone /\ ret.thrown = "none"

\* a record whose own properties are all plain writable data properties
PlainRecord(h, x) ==
  /\ IsRef(x)
  /\ h[x.v].cls = "object"
  /\ \A i \in 1..Len(h[x.v].attr) : h[x.v].attr[i] = "w"

(***************************** claims: clone *******************************)
\* C1 (as stated): for a record a with a.self = a, every clone strategy
\* returns a clone c whose self-reference is c itself.
C1_CyclePreserved ==
  \A k \in {"a", "b"} :
    (CopyDone /\ PlainRecord(heap, ret.arg) /\ Get(heap[ret.arg.v], k) = ret.arg)
      => /\ ret.thrown = "none"
         /\ IsRef(ret.val)
         /\ ret.val # ret.arg
         /\ Get(heap[ret.val.v], k) = ret.val

\* C2 (as stated): when a record holds the same object under two keys, the
\* clone holds one and the same object under those two keys.
C2_SharingPreserved ==
  (CopyReturned /\ PlainRecord(heap, ret.arg)
     /\ IsRef(Get(heap[ret.arg.v], "a"))
     /\ Get(heap[ret.arg.v], "a") = Get(heap[ret.arg.v], "b"))
    => Get(heap[ret.val.v], "a") = Get(heap[ret.val.v], "b")

\* C3 (as stated): the clone of an array, record, date, regexp, set or map
\* is another object, and isObjectEqual(clone, original) is true.
C3_CloneEqualRoundTrip ==
  (CopyDone /\ IsRef(ret.arg)
     /\ heap[ret.arg.v].cls \in {"array", "object", "date", "regexp", "set", "map"})
    => /\ ret.thrown = "none"
       /\ ret.val # ret.arg
       /\ isObjectEqual(heap, ret.val, ret.arg, {"key"}, 0) = "true"

\* C4 (as stated): every clone strategy returns a primitive argument
\* itself.
C4_PrimitiveIdentity ==
  (CopyDone /\ ret.arg \in Primitives) => (ret.thrown = "none" /\ ret.val = ret.arg)

\* the objects both the argument and the result of the copy reach
SharedObjects == Reach(heap, ret.arg) \cap Reach(heap, ret.val)

\* the keys of the maps the argument reaches
MapKeyObjects ==
  UNION {{x.v : x \in {y \in Range(heap[i].mkeys) : IsRef(y)}}
         : i \in Reach(heap, ret.arg)}

\* C5 (as stated): after c = clone(v), only functions are reachable from
\* both v and c.
C5_OnlyFunctionsShared ==
  CopyReturned => \A i \in SharedObjects : heap[i].cls = "function"

\* C5 (amended): after c = clone(v) returns, every object reachable from
\* both v and c is a function, an object of an unlisted type, an object
\* used as a map key, or is reached through one of those.
C5_SharedOnlyThroughPassedValues ==
  CopyReturned =>
    SharedObjects \subseteq
      ReachFrom(heap, {i \in Reach(heap, ret.arg) :
                         heap[i].cls \in {"function", "opaque"}} \cup MapKeyObjects)

\* C5 witness: deepCopy of a map whose key is a record returned a new map
\* that shares exactly that key object with the original.
C5_Witness ==
  /\ ret.fn = "deepCopy"
  /\ ret.thrown = "none"
  /\ ret.arg = Ref(1)
  /\ heap[1].cls = "map"
  /\ heap[1].mkeys = <<Ref(2)>>
  /\ heap[2].cls = "object"
  /\ ret.val # ret.arg
  /\ SharedObjects = {2}

\* C8 (as stated): a clone call never throws.
C8_NeverThrows == CopyDone => ret.thrown = "none"

(***************************** claims: equality ****************************)
EqualDone == ret.fn = "isObjectEqual"

BothOf(classes) ==
  /\ heap[1].cls \in classes
  /\ heap[2].cls = heap[1].cls

\* C6: for two records, isObjectEqual is true exactly when they have the
\* same number of own keys and every key of the first that is not excluded
\* has recursively equal values; excluded keys match without inspection,
\* also in nested records.
C6_RecordEquality ==
  (EqualDone /\ BothOf({"object"})) =>
    /\ (ret.out = "true") <=>
         /\ Cardinality(Range(heap[1].keys)) = Cardinality(Range(heap[2].keys))
         /\ \A k \in Range(heap[1].keys) \ ret.ex :
              isObjectEqual(heap, Get(heap[1], k), Get(heap[2], k), ret.ex, 1) = "true"
    \* equal({key:1, a:2}, {key:2, a:2}, ["key"]) and
    \* equal({key:1, a:2}, {key:1, a:1}, ["key"])
    /\ (/\ ret.ex = {"key"}
        /\ heap[1] = MkRecord(<<"key", "a">>, <<"w", "w">>, <<Num(1), Num(2)>>)
        /\ heap[2] = MkRecord(<<"key", "a">>, <<"w", "w">>, <<Num(2), Num(2)>>))
         => ret.out = "true"
    /\ (/\ ret.ex = {"key"}
        /\ heap[1] = MkRecord(<<"key", "a">>, <<"w", "w">>, <<Num(1), Num(2)>>)
        /\ heap[2] = MkRecord(<<"key", "a">>, <<"w", "w">>, <<Num(1), Num(1)>>))
         => ret.out = "false"
    \* nested: {a: {key:1}} against {a: {key:2}}
    /\ (/\ ret.ex = {"key"}
        /\ heap[1] = MkRecord(<<"a">>, <<"w">>, <<Ref(3)>>)
        /\ heap[2] = MkRecord(<<"a">>, <<"w">>, <<Ref(4)>>)
        /\ heap[3] = MkRecord(<<"key">>, <<"w">>, <<Num(1)>>)
        /\ heap[4] = MkRecord(<<"key">>, <<"w">>, <<Num(2)>>))
         => ret.out = "true"

\* C6 witness: two records that differ in the excluded key alone, at the
\* top and in a nested record, were found equal.
C6_Witness ==
  /\ EqualDone
  /\ ret.ex = {"key"}
  /\ heap[1] = MkRecord(<<"key", "a">>, <<"w", "w">>, <<Num(1), Ref(3)>>)
  /\ heap[2] = MkRecord(<<"key", "a">>, <<"w", "w">>, <<Num(2), Ref(4)>>)
  /\ heap[3] = MkRecord(<<"key">>, <<"w">>, <<Num(1)>>)
  /\ heap[4] = MkRecord(<<"key">>, <<"w">>, <<Num(2)>>)
  /\ ret.out = "true"

C10_Symmetric ==
  EqualDone => ret.out = isObjectEqual(heap, ret.arg2, ret.arg, ret.ex, 0)

(***************************** claims: throttle ****************************)
Spaced(rs) == \A i, j \in 1..Len(rs) : i < j => rs[j] - rs[i] >= interval

\* C9 (as stated): under every throttle variant, two invocations of fn are
\* at least interval ms apart.
C9_RateLimited == Spaced(runs) /\ Spaced(runsT)
=============================================================================
